---------------------------- MODULE Spec2Model ----------------------------
(***************************************************************************)
(* A model of src/transformers/modeling_blenderbot.py: the output head     *)
(* (BlenderbotOutput), the conditional generation wrapper                  *)
(* (BlenderbotForConditionalGeneration) and its generation hooks.          *)
(*                                                                         *)
(* Tensors are modelled by their entries.  A tensor entry is a record      *)
(* [k, m, e]: k = "num" stands for the number m * 10^e as stored at the    *)
(* tensor's dtype, k = "-inf" for negative infinity.  Python's None is the *)
(* empty tuple and an optional value x is the one-element tuple <<x>>.     *)
(* Python objects that are shared by reference (embedding tables, the      *)
(* per-layer cache mappings) are modelled by their identity in a heap.     *)
(***************************************************************************)
EXTENDS Integers, Sequences, FiniteSets, TLC

\* ---------------------------------------------------------------- bounds
\* config.vocab_size of the models that are checked
VocabSize == 3
\* config.d_model of the models that are checked
DModel == 1
\* embedding tables a caller may swap in, besides the constructed one
NumTables == 2
\* batch rows of the tensors that are checked
BatchSize == 2
\* decoder positions of the hidden states that are checked
SeqLen == 1
\* the largest max_length of a generation that is checked
MaxLength == 3
\* the most decoder layers of a cache that is checked
MaxLayers == 2
\* the most _reorder_cache calls of one run
MaxReorders == 2

\* ------------------------------------------------------- values and None
None == <<>>
Some(x) == <<x>>
Get(o) == o[1]

Num(n) == [k |-> "num", m |-> n, e |-> 0]
\* the literal -1e20 of BlenderbotOutput.forward
Neg1e20 == [k |-> "num", m |-> -1, e |-> 20]
\* the literal -65504 of BlenderbotOutput.forward and adjust_logits_during_generation
Neg65504 == Num(-65504)
\* -float("inf") of _force_token_ids_generation
NegInf == [k |-> "-inf", m |-> 0, e |-> 0]

Vocab == 0 .. (VocabSize - 1)
Batch == 1 .. BatchSize
Positions == 1 .. SeqLen
Dims == 1 .. DModel
DTypes == {"float16", "float32"}

\* the ids of the embedding tables (nn.Embedding objects): 0 is the table
\* the constructor builds, the others are tables a caller passes in
Tables == 0 .. NumTables

VARIABLES
    config,                 \* self.config: the BlenderbotConfig
    dtype,                  \* the dtype of the model's parameters
    weight,                 \* weight[t][v][d]: the weights of embedding table t
    shared,                 \* self.shared
    encoder_embed_tokens,   \* self.encoder.embed_tokens
    decoder_embed_tokens,   \* self.decoder.embed_tokens
    output_embeddings,      \* self.output.embeddings
    last_set,               \* the table of the last set_input_embeddings call
    logits,                 \* the generation driver's score tensor
    heap,                   \* the per-layer cache mappings, by identity
    past,                   \* the generation driver's past value
    trail,                  \* the _reorder_cache calls so far: input and beam_idx
    call,                   \* the last call: its name and arguments
    ret                     \* what the last call returned or raised

model_vars == <<config, dtype, weight, shared, encoder_embed_tokens,
                decoder_embed_tokens, output_embeddings, last_set>>
cache_vars == <<heap, past, trail>>
vars == <<model_vars, logits, cache_vars, call, ret>>

Return(v) == [raised |-> None, value |-> Some(v)]
Raise(exc) == [raised |-> Some(exc), value |-> None]

\* ------------------------------------------------------------ the config
Configs ==
    [vocab_size : {VocabSize},
     bos_token_id : Vocab,
     eos_token_id : {None} \cup {Some(v) : v \in Vocab},
     use_return_dict : BOOLEAN,
     pad_token_id : {0},
     use_cache : {TRUE},
     output_attentions : {FALSE},
     output_hidden_states : {FALSE}]

\* the weights a table may hold: one row of DModel numbers per token id
WeightsA == [v \in Vocab |-> [d \in Dims |-> v + d - 2]]
WeightsB == [v \in Vocab |-> [d \in Dims |-> 1 - v * d]]
WeightsC == [v \in Vocab |-> [d \in Dims |-> 2]]

\* _init_weights: the row at the padding index of an embedding is zeroed
InitWeights(w, padding_idx) ==
    [w EXCEPT ![padding_idx] = [d \in Dims |-> 0]]

\* ------------------------------------------------------ BlenderbotOutput
RECURSIVE Dot(_, _, _)
Dot(x, y, d) == IF d = 0 THEN 0 ELSE x[d] * y[d] + Dot(x, y, d - 1)

\* F.linear(hidden_states, w): hidden_states (batch x positions x d_model)
\* times the transpose of w (vocab x d_model), no bias
F_linear(hidden_states, w) ==
    [b \in DOMAIN hidden_states |->
        [t \in DOMAIN hidden_states[b] |->
            [v \in DOMAIN w |-> Num(Dot(hidden_states[b][t], w[v], DModel))]]]

\* a head that writes the half-precision floor whatever the dtype
BlenderbotOutput_forward_fp16_floor(hidden_states, embeddings, bos_token_id, output_dtype) ==
    LET output == F_linear(hidden_states, weight[embeddings])
    IN  [b \in DOMAIN output |->
            [t \in DOMAIN output[b] |->
                [output[b][t] EXCEPT ![bos_token_id] = Neg65504]]]

\* BlenderbotOutput.forward, of the head whose embeddings are table
\* `embeddings` and whose bos_token_id is `bos_token_id`
BlenderbotOutput_forward(hidden_states, embeddings, bos_token_id, output_dtype) ==
    LET output == F_linear(hidden_states, weight[embeddings])
        fill == IF output_dtype = "float16" THEN Neg65504 ELSE Neg1e20
    IN  [b \in DOMAIN output |->
            [t \in DOMAIN output[b] |->
                [output[b][t] EXCEPT ![bos_token_id] = fill]]]

\* ------------------------------------------------- embedding accessors
get_input_embeddings ==
    /\ call' = [op |-> "get_input_embeddings"]
    /\ ret' = Return(shared)
    /\ UNCHANGED <<model_vars, logits, cache_vars>>

\* a setter that leaves the decoder's reference behind
set_input_embeddings_skip_decoder(value) ==
    /\ shared' = value
    /\ encoder_embed_tokens' = value
    /\ last_set' = Some(value)
    /\ call' = [op |-> "set_input_embeddings", value |-> value]
    /\ ret' = Return(None)
    /\ UNCHANGED <<config, dtype, weight, decoder_embed_tokens, output_embeddings,
                   logits, cache_vars>>

set_input_embeddings(value) ==
    /\ shared' = value
    /\ encoder_embed_tokens' = value
    /\ decoder_embed_tokens' = value
    /\ last_set' = Some(value)
    /\ call' = [op |-> "set_input_embeddings", value |-> value]
    /\ ret' = Return(None)
    /\ UNCHANGED <<config, dtype, weight, output_embeddings, logits, cache_vars>>

\* get_output_embeddings: a new nn.Linear whose weight data is the storage
\* of self.shared.weight
get_output_embeddings ==
    /\ call' = [op |-> "get_output_embeddings"]
    /\ ret' = Return([cls |-> "Linear", bias |-> FALSE, weight_data |-> shared])
    /\ UNCHANGED <<model_vars, logits, cache_vars>>

\* ------------------------------------------------ encoder and decoder
\* a plain tuple, and the structured record of modeling_outputs
Tuple(elems) ==
    [cls |-> "tuple", elems |-> elems,
     last_hidden_state |-> None, hidden_states |-> None, attentions |-> None]
BaseModelOutput(last_hidden_state, hidden_states, attentions) ==
    [cls |-> "BaseModelOutput", elems |-> <<>>,
     last_hidden_state |-> last_hidden_state,
     hidden_states |-> hidden_states, attentions |-> attentions]
isinstance(x, cls) == x.cls = cls
len(x) == Len(x.elems)
\* x[0]: the first element of a tuple, the first field of a record
Item0(x) == IF x.cls = "tuple" THEN x.elems[1] ELSE x.last_hidden_state

\* the encoder: the structured record when return_dict, else a plain tuple
\* of the last hidden state and the outputs that were asked for
BartEncoder(input_ids, output_attentions, output_hidden_states, return_dict) ==
    LET h == Some("encoder_last_hidden_state")
        hs == IF output_hidden_states THEN Some("encoder_states") ELSE None
        at == IF output_attentions THEN Some("encoder_attentions") ELSE None
    IN  IF return_dict
        THEN BaseModelOutput(h, hs, at)
        ELSE Tuple(<<h>> \o (IF hs = None THEN <<>> ELSE <<hs>>)
                         \o (IF at = None THEN <<>> ELSE <<at>>))

\* _prepare_bart_decoder_inputs: the decoder input ids that were supplied,
\* else the input ids shifted right
_prepare_bart_decoder_inputs(input_ids, decoder_input_ids) ==
    IF decoder_input_ids # None THEN decoder_input_ids
    ELSE IF input_ids # None THEN Some("shift_tokens_right(input_ids)")
    ELSE None

\* the decoder: its hidden states (any), the cache when use_cache, and the
\* outputs that were asked for
BartDecoder_forward(hidden, use_cache, output_attentions, output_hidden_states) ==
    [last_hidden_state |-> hidden,
     past_key_values |-> IF use_cache THEN Some("next_cache") ELSE None,
     hidden_states |-> IF output_hidden_states THEN Some("decoder_states") ELSE None,
     attentions |-> IF output_attentions THEN Some("decoder_attentions") ELSE None]

\* decoder_outputs[1:]
DecoderOutputsTail(d) ==
    (IF d.past_key_values = None THEN <<>> ELSE <<d.past_key_values>>)
    \o (IF d.hidden_states = None THEN <<>> ELSE <<d.hidden_states>>)
    \o (IF d.attentions = None THEN <<>> ELSE <<d.attentions>>)

\* the hidden states a decoder call may return
HiddenStates ==
    { [b \in Batch |-> [t \in Positions |-> [d \in Dims |-> 1]]],
      [b \in Batch |-> [t \in Positions |-> [d \in Dims |-> b - 2 * t + d]]] }

\* the encoder outputs a caller may supply
EncoderOutputs ==
    { Tuple(<<Some("h"), Some("hs"), Some("at")>>),
      BaseModelOutput(Some("h"), None, None) }

\* the labels a caller may supply, as the shape and the flattened class ids
\* of a LongTensor: of the documented shape (batch_size, sequence_length),
\* of one row of sequence_length entries, and of one row of class ids that
\* are not in the vocabulary
Labels ==
    { [shape |-> <<BatchSize, SeqLen>>,
       data |-> [i \in 1 .. (BatchSize * SeqLen) |-> i % VocabSize]],
      [shape |-> <<1, SeqLen>>,
       data |-> [i \in 1 .. SeqLen |-> i % VocabSize]],
      [shape |-> <<1, SeqLen>>,
       data |-> [i \in 1 .. SeqLen |-> VocabSize]] }

\* the ignore_index of nn.CrossEntropyLoss()
IgnoreIndex == -100

\* nn.CrossEntropyLoss()(input, target): input is a sequence of rows of
\* class scores, target the flattened class ids.  The value of the loss is
\* kept abstract; the failures are not: the rows of the input must be as
\* many as the targets, and a target that is not ignored must be a class.
CrossEntropyLoss(input, target) ==
    IF Len(input) # Len(target)
    THEN Raise("ValueError: Expected input batch_size to match target batch_size")
    ELSE IF \E i \in DOMAIN target :
                target[i] # IgnoreIndex /\ target[i] \notin DOMAIN input[1]
    THEN Raise("IndexError: Target is out of bounds")
    ELSE Return("CrossEntropyLoss")

OptBool == {None, Some(TRUE), Some(FALSE)}

ForwardArgs ==
    [input_ids : {None, Some("input_ids")},
     encoder_outputs : {None} \cup {Some(x) : x \in EncoderOutputs},
     decoder_input_ids : {None, Some("decoder_input_ids")},
     labels : {None} \cup {Some(x) : x \in Labels},
     use_cache : {None, Some(FALSE)},
     output_attentions : {None},
     output_hidden_states : {None},
     return_dict : OptBool]

\* the encoder output of forward before the assertion of line 173
EncoderOutputsOf(a, output_attentions, output_hidden_states, return_dict) ==
    LET encoder_outputs ==
            IF a.encoder_outputs = None
            THEN BartEncoder(a.input_ids, output_attentions,
                             output_hidden_states, return_dict)
            ELSE Get(a.encoder_outputs)
    IN  IF ~return_dict /\ ~isinstance(encoder_outputs, "BaseModelOutput")
        THEN BaseModelOutput(
                 Item0(encoder_outputs),
                 IF len(encoder_outputs) > 1 THEN encoder_outputs.elems[2] ELSE None,
                 IF len(encoder_outputs) > 2 THEN encoder_outputs.elems[3] ELSE None)
        ELSE encoder_outputs

\* BlenderbotForConditionalGeneration.forward with arguments a, where the
\* decoder returns the hidden states `hidden`
Forward(a, hidden) ==
    LET use_cache0 == IF a.decoder_input_ids = None THEN Some(FALSE) ELSE a.use_cache
        output_attentions ==
            IF a.output_attentions # None THEN Get(a.output_attentions)
            ELSE config.output_attentions
        output_hidden_states ==
            IF a.output_hidden_states # None THEN Get(a.output_hidden_states)
            ELSE config.output_hidden_states
        use_cache == IF use_cache0 # None THEN Get(use_cache0) ELSE config.use_cache
        return_dict ==
            IF a.return_dict # None THEN Get(a.return_dict) ELSE config.use_return_dict
        encoder_outputs ==
            EncoderOutputsOf(a, output_attentions, output_hidden_states, return_dict)
        decoder_input_ids ==
            IF use_cache THEN a.decoder_input_ids
            ELSE _prepare_bart_decoder_inputs(a.input_ids, a.decoder_input_ids)
        decoder_outputs ==
            BartDecoder_forward(hidden, use_cache, output_attentions,
                                output_hidden_states)
        scores ==
            BlenderbotOutput_forward(decoder_outputs.last_hidden_state,
                                     output_embeddings, config.bos_token_id, dtype)
        \* loss_fc(scores[0].view(-1, vocab_size), labels.view(-1)): the
        \* scores of the first batch row, one row per position
        loss_fc == CrossEntropyLoss(scores[1], Get(a.labels).data)
        loss == IF a.labels # None THEN loss_fc.value ELSE None
    IN  IF ~isinstance(encoder_outputs, "BaseModelOutput")
        THEN Raise("AssertionError: encoder_outputs")
        ELSE IF decoder_input_ids = None
        THEN Raise("AssertionError: decoder_input_ids")
        ELSE IF a.labels # None /\ loss_fc.raised # None
        THEN loss_fc
        ELSE IF ~return_dict
        THEN Return([cls |-> "tuple",
                     elems |-> (IF loss # None THEN <<loss, scores>> ELSE <<scores>>)
                               \o DecoderOutputsTail(decoder_outputs)])
        ELSE Return([cls |-> "Seq2SeqLMOutput",
                     loss |-> loss,
                     logits |-> scores,
                     decoder_past_key_values |-> decoder_outputs.past_key_values,
                     decoder_hidden_states |-> decoder_outputs.hidden_states,
                     decoder_attentions |-> decoder_outputs.attentions,
                     encoder_last_hidden_state |-> encoder_outputs.last_hidden_state,
                     encoder_hidden_states |-> encoder_outputs.hidden_states,
                     encoder_attentions |-> encoder_outputs.attentions])

forward ==
    \E a \in ForwardArgs, hidden \in HiddenStates :
        \* the encoder needs input ids
        /\ a.encoder_outputs = None => a.input_ids # None
        /\ call' = [op |-> "forward", args |-> a]
        /\ ret' = Forward(a, hidden)
        /\ UNCHANGED <<model_vars, logits, cache_vars>>

\* ------------------------------------------------- the constructed model
\* __init__: one table, shared by the wrapper, the encoder, the decoder and
\* the output head, with its weights initialised
Init ==
    /\ config \in {c \in Configs : /\ c.eos_token_id = None
                                   /\ c.bos_token_id \in {0, VocabSize - 1}}
    /\ dtype \in DTypes
    /\ \E w \in {WeightsA} :
         weight = [t \in Tables |->
                      IF t = 0 THEN InitWeights(w, config.pad_token_id)
                      ELSE IF t % 2 = 1 THEN WeightsB ELSE WeightsC]
    /\ shared = 0
    /\ encoder_embed_tokens = 0
    /\ decoder_embed_tokens = 0
    /\ output_embeddings = 0
    /\ last_set = None
    /\ logits = None
    /\ heap = <<>>
    /\ past = None
    /\ trail = <<>>
    /\ call = [op |-> "__init__"]
    /\ ret = Return(None)

Next ==
    \/ get_input_embeddings
    \/ \E value \in Tables : set_input_embeddings(value)
    \/ get_output_embeddings
    \/ forward

Spec == Init /\ [][Next]_vars

\* ---------------------------------------------------- generation hooks
\* A score tensor: its shape and its entries, data[r][v] being the entry of
\* vocabulary column v in row r (the rows are the leading dimensions,
\* flattened).
Tensor2D(data) == [shape |-> <<BatchSize, VocabSize>>, data |-> data]
ScoresA == [r \in Batch |-> [v \in Vocab |-> Num(10 * r + v)]]
ScoresB == [r \in Batch |-> [v \in Vocab |-> Num(v - r)]]
\* the logits of a decoding step (batch x vocabulary)
StepLogits == {Tensor2D(ScoresA), Tensor2D(ScoresB)}
\* score tensors that are not 2-dimensional
OtherScores ==
    { [shape |-> <<VocabSize>>,
       data |-> [r \in {1} |-> [v \in Vocab |-> Num(v)]]],
      [shape |-> <<BatchSize, SeqLen, VocabSize>>,
       data |-> [r \in 1 .. (BatchSize * SeqLen) |-> [v \in Vocab |-> Num(r + v)]]] }

\* scores[:, ids] = value on a 2-dimensional tensor
SetColumns(scores, ids, value) ==
    [scores EXCEPT !.data =
        [r \in DOMAIN scores.data |->
            [v \in DOMAIN scores.data[r] |->
                IF v \in ids THEN value ELSE scores.data[r][v]]]]

\* the token_ids argument: an int, or a list of ints
Int_(k) == [cls |-> "int", ids |-> {k}]
List_(ks) == [cls |-> "list", ids |-> ks]
TokenIds ==
    {Int_(k) : k \in Vocab}
    \cup {List_(ks) : ks \in {x \in SUBSET Vocab : Cardinality(x) <= 2}}

\* a mask built over range(vocab_size - 1): the last column is never masked
ForceTokenIds_short_range(scores, token_ids) ==
    LET ids == token_ids.ids
        all_but_token_ids_mask == {x \in 0 .. (config.vocab_size - 2) : x \notin ids}
    IN  IF Len(scores.shape) # 2
        THEN [ret |-> Raise("AssertionError: scores should be of rank 2"),
              scores |-> scores]
        ELSE [ret |-> Return(None),
              scores |-> SetColumns(scores, all_but_token_ids_mask, NegInf)]

\* _force_token_ids_generation: what it raises or returns, and the scores
\* after the call
ForceTokenIds(scores, token_ids) ==
    LET ids == token_ids.ids
        all_but_token_ids_mask == {x \in 0 .. (config.vocab_size - 1) : x \notin ids}
    IN  IF Len(scores.shape) # 2
        THEN [ret |-> Raise("AssertionError: scores should be of rank 2"),
              scores |-> scores]
        ELSE [ret |-> Return(None),
              scores |-> SetColumns(scores, all_but_token_ids_mask, NegInf)]

_force_token_ids_generation(token_ids) ==
    /\ logits # None
    /\ LET r == ForceTokenIds(Get(logits), token_ids)
       IN  /\ logits' = Some(r.scores)
           /\ ret' = r.ret
    /\ call' = [op |-> "_force_token_ids_generation",
                scores |-> Get(logits), token_ids |-> token_ids]
    /\ UNCHANGED <<model_vars, cache_vars>>

\* the number of entries of the dimensions from..Len(shape) of a shape
RECURSIVE Numel(_, _)
Numel(shape, from) ==
    IF from > Len(shape) THEN 1 ELSE shape[from] * Numel(shape, from + 1)

\* logits[:, idx] = value: idx indexes the second dimension, whatever the
\* rank.  One dimension is too few for two indices; on two dimensions the
\* column idx is written; on more, every entry whose second index is idx
\* (row r of data has second index ((r - 1) \div (rows per second index))
\* modulo the size of the second dimension).
SetIndexDim1(scores, idx, value) ==
    LET shape == scores.shape
        inner == Numel(shape, 3) \div shape[Len(shape)]
    IN  IF Len(shape) < 2
        THEN [ret |-> Raise("IndexError: too many indices for tensor of dimension 1"),
              scores |-> scores]
        ELSE IF idx >= shape[2]
        THEN [ret |-> Raise("IndexError: index out of bounds"), scores |-> scores]
        ELSE IF Len(shape) = 2
        THEN [ret |-> Return(None), scores |-> SetColumns(scores, {idx}, value)]
        ELSE [ret |-> Return(None),
              scores |-> [scores EXCEPT !.data =
                  [r \in DOMAIN scores.data |->
                      IF ((r - 1) \div inner) % shape[2] = idx
                      THEN [v \in DOMAIN scores.data[r] |-> value]
                      ELSE scores.data[r]]]]

\* an adjustment that forces EOS one step late (cur_len == max_length)
AdjustLogits_late_eos(scores, cur_len, max_length) ==
    LET suppressed == SetIndexDim1(scores, config.bos_token_id, Neg65504)
        forced == ForceTokenIds(suppressed.scores, Int_(Get(config.eos_token_id)))
    IN  IF suppressed.ret.raised # None THEN suppressed
        ELSE IF cur_len = max_length /\ config.eos_token_id # None
        THEN (IF forced.ret.raised # None THEN forced
              ELSE [ret |-> Return(Some(forced.scores)), scores |-> forced.scores])
        ELSE [ret |-> Return(Some(suppressed.scores)), scores |-> suppressed.scores]

\* an adjustment that suppresses BOS only on the step that forces EOS
AdjustLogits_bos_on_last_step(scores, cur_len, max_length) ==
    LET suppressed == SetIndexDim1(scores, config.bos_token_id, Neg65504)
        forced == ForceTokenIds(suppressed.scores, Int_(Get(config.eos_token_id)))
    IN  IF cur_len = max_length - 1 /\ config.eos_token_id # None
        THEN (IF suppressed.ret.raised # None THEN suppressed
              ELSE IF forced.ret.raised # None THEN forced
              ELSE [ret |-> Return(Some(forced.scores)), scores |-> forced.scores])
        ELSE [ret |-> Return(Some(scores)), scores |-> scores]

\* adjust_logits_during_generation: what it raises or returns, and the
\* logits after the call.  An IndexError of line 266 leaves the logits as
\* they were; the AssertionError of _force_token_ids_generation comes after
\* the write of line 266.
AdjustLogits(scores, cur_len, max_length) ==
    LET suppressed == SetIndexDim1(scores, config.bos_token_id, Neg65504)
        forced == ForceTokenIds(suppressed.scores, Int_(Get(config.eos_token_id)))
    IN  IF suppressed.ret.raised # None THEN suppressed
        ELSE IF cur_len = max_length - 1 /\ config.eos_token_id # None
        THEN (IF forced.ret.raised # None THEN forced
              ELSE [ret |-> Return(Some(forced.scores)), scores |-> forced.scores])
        ELSE [ret |-> Return(Some(suppressed.scores)), scores |-> suppressed.scores]

adjust_logits_during_generation(cur_len, max_length) ==
    /\ logits # None
    /\ LET r == AdjustLogits(Get(logits), cur_len, max_length)
       IN  /\ logits' = Some(r.scores)
           /\ ret' = r.ret
    /\ call' = [op |-> "adjust_logits_during_generation", logits |-> Get(logits),
                cur_len |-> cur_len, max_length |-> max_length]
    /\ UNCHANGED <<model_vars, cache_vars>>

\* the arguments of prepare_inputs_for_generation
PrepareArgs ==
    [decoder_input_ids : {Some("decoder_input_ids")},
     past : {None,
             Some([encoder_outputs |-> Some("encoder_outputs"),
                   decoder_cached_states |-> None]),
             Some([encoder_outputs |-> Some("encoder_outputs"),
                   decoder_cached_states |-> Some("decoder_cached_states")])},
     attention_mask : {None, Some("attention_mask")},
     use_cache : BOOLEAN]

\* an unpacking of past in the wrong order
PrepareInputs_swapped(a) ==
    IF a.past = None
    THEN Raise("AssertionError: past has to be defined for encoder_outputs")
    ELSE LET encoder_outputs == Get(a.past).decoder_cached_states
             decoder_cached_states == Get(a.past).encoder_outputs
         IN  Return([input_ids |-> None,
                     encoder_outputs |-> encoder_outputs,
                     decoder_cached_states |-> decoder_cached_states,
                     decoder_input_ids |-> a.decoder_input_ids,
                     attention_mask |-> a.attention_mask,
                     use_cache |-> a.use_cache])

PrepareInputs(a) ==
    IF a.past = None
    THEN Raise("AssertionError: past has to be defined for encoder_outputs")
    ELSE LET encoder_outputs == Get(a.past).encoder_outputs
             decoder_cached_states == Get(a.past).decoder_cached_states
         IN  Return([input_ids |-> None,
                     encoder_outputs |-> encoder_outputs,
                     decoder_cached_states |-> decoder_cached_states,
                     decoder_input_ids |-> a.decoder_input_ids,
                     attention_mask |-> a.attention_mask,
                     use_cache |-> a.use_cache])

prepare_inputs_for_generation ==
    \E a \in PrepareArgs :
        /\ call' = [op |-> "prepare_inputs_for_generation", args |-> a]
        /\ ret' = PrepareInputs(a)
        /\ UNCHANGED <<model_vars, logits, cache_vars>>

\* a constructed model and the score tensor of a decoding step
InitGen ==
    /\ config \in {c \in Configs : c.use_return_dict}
    /\ dtype = "float32"
    /\ weight = [t \in Tables |-> InitWeights(WeightsA, config.pad_token_id)]
    /\ shared = 0
    /\ encoder_embed_tokens = 0
    /\ decoder_embed_tokens = 0
    /\ output_embeddings = 0
    /\ last_set = None
    /\ logits \in {Some(x) : x \in StepLogits \cup OtherScores}
    /\ heap = <<>>
    /\ past = None
    /\ trail = <<>>
    /\ call = [op |-> "__init__"]
    /\ ret = Return(None)

NextGen ==
    \/ \E cur_len \in 1 .. MaxLength, max_length \in 1 .. MaxLength :
          adjust_logits_during_generation(cur_len, max_length)
    \/ \E token_ids \in TokenIds : _force_token_ids_generation(token_ids)
    \/ prepare_inputs_for_generation

SpecGen == InitGen /\ [][NextGen]_vars

\* ------------------------------------------------------- _reorder_cache
\* A tensor with a batch dimension is the sequence of its batch rows.  The
\* heap holds the mutable containers of a past value by identity: the list
\* of layer caches and each layer's mapping of attention key to cached
\* tensor.  heap[id] is the container with identity id.
AttnKeys == {"self", "encoder_decoder"}
CachedTensor(tag) == [b \in Batch |-> 10 * tag + b]

\* tensor.index_select(0, beam_idx): row i of the result is row beam_idx[i]
\* of the tensor (beam_idx counts from 0)
index_select(tensor, beam_idx) ==
    [i \in 1 .. Len(beam_idx) |-> tensor[beam_idx[i] + 1]]

\* _reorder_buffer(attn_cache, beam_idx): the cached tensor re-indexed
\* along the batch dimension
_reorder_buffer(attn_cache, beam_idx) == index_select(attn_cache, beam_idx)

\* the beam_idx of a beam search step: a permutation of the batch rows, or
\* one row selected for every beam
BeamIdx ==
    {x \in [Batch -> 0 .. (BatchSize - 1)] :
        \/ \A c \in Batch : \E b \in Batch : x[b] = c - 1
        \/ \A b \in Batch : x[b] = x[1]}

\* a reordering that returns the reordered encoder output as the mask too
ReorderCache_mask_from_enc_out(h, p, beam_idx) ==
    LET decoder_cached_states == h[p.decoder_cached_states].items
        n == Len(decoder_cached_states)
        layer_past_new(i) ==
            LET layer_past == h[decoder_cached_states[i]].items
            IN  [cls |-> "dict",
                 items |-> [attn_key \in DOMAIN layer_past |->
                               index_select(layer_past[attn_key], beam_idx)]]
        new_enc_out ==
            IF p.enc_out = None THEN None
            ELSE Some(index_select(Get(p.enc_out), beam_idx))
    IN  [heap |-> h \o <<[cls |-> "list", items |-> [i \in 1 .. n |-> Len(h) + 1 + i]]>>
                    \o [i \in 1 .. n |-> layer_past_new(i)],
         past |-> [enc_out |-> new_enc_out, enc_mask |-> new_enc_out,
                   decoder_cached_states |-> Len(h) + 1]]

\* a reordering that writes each reordered layer cache back into the
\* mapping it was given and returns the list it was given
ReorderCache_in_place(h, p, beam_idx) ==
    LET decoder_cached_states == h[p.decoder_cached_states].items
        reordered(id) ==
            [cls |-> "dict",
             items |-> [attn_key \in DOMAIN h[id].items |->
                           index_select(h[id].items[attn_key], beam_idx)]]
        is_layer(id) == \E i \in DOMAIN decoder_cached_states :
                            decoder_cached_states[i] = id
    IN  [heap |-> [id \in DOMAIN h |-> IF is_layer(id) THEN reordered(id) ELSE h[id]],
         past |-> [enc_out |-> IF p.enc_out = None THEN None
                               ELSE Some(index_select(Get(p.enc_out), beam_idx)),
                   enc_mask |-> IF p.enc_mask = None THEN None
                                ELSE Some(index_select(Get(p.enc_mask), beam_idx)),
                   decoder_cached_states |-> p.decoder_cached_states]]

\* _reorder_cache(p, beam_idx) on heap h: the heap after the call and the
\* past value it returns
ReorderCache(h, p, beam_idx) ==
    LET enc_out == p.enc_out
        enc_mask == p.enc_mask
        decoder_cached_states == h[p.decoder_cached_states].items
        n == Len(decoder_cached_states)
        \* reordered_past = [] is a new list, each layer_past_new a new dict
        list_id == Len(h) + 1
        dict_id(i) == Len(h) + 1 + i
        layer_past_new(i) ==
            LET layer_past == h[decoder_cached_states[i]].items
            IN  [cls |-> "dict",
                 items |-> [attn_key \in DOMAIN layer_past |->
                               _reorder_buffer(layer_past[attn_key], beam_idx)]]
        reordered_past == [cls |-> "list", items |-> [i \in 1 .. n |-> dict_id(i)]]
        new_enc_out ==
            IF enc_out = None THEN enc_out
            ELSE Some(index_select(Get(enc_out), beam_idx))
        new_enc_mask ==
            IF enc_mask = None THEN enc_mask
            ELSE Some(index_select(Get(enc_mask), beam_idx))
    IN  [heap |-> h \o <<reordered_past>> \o [i \in 1 .. n |-> layer_past_new(i)],
         past |-> [enc_out |-> new_enc_out, enc_mask |-> new_enc_mask,
                   decoder_cached_states |-> list_id]]

\* a call on the driver's past value (input = "past") or on the past value
\* the previous call returned (input = "ret")
_reorder_cache(input, beam_idx) ==
    /\ Len(trail) < MaxReorders
    /\ input = "ret" => Len(trail) > 0
    /\ LET p == IF input = "past" THEN Get(past) ELSE Get(ret.value)
           r == ReorderCache(heap, p, beam_idx)
       IN  /\ heap' = r.heap
           /\ ret' = Return(r.past)
    /\ trail' = Append(trail, [input |-> input, beam_idx |-> beam_idx,
                                result |-> Get(ret'.value)])
    /\ call' = [op |-> "_reorder_cache", input |-> input, beam_idx |-> beam_idx]
    /\ UNCHANGED <<model_vars, logits, past>>

\* the past values of a beam search: an encoder output and mask, each
\* present or absent, and up to MaxLayers layer caches with their keys
LayerKeySets == {{"self"}, AttnKeys}
InitCache ==
    /\ config \in {c \in Configs : c.use_return_dict /\ c.bos_token_id = 0
                                   /\ c.eos_token_id = None}
    /\ dtype = "float32"
    /\ weight = [t \in Tables |-> InitWeights(WeightsA, config.pad_token_id)]
    /\ shared = 0
    /\ encoder_embed_tokens = 0
    /\ decoder_embed_tokens = 0
    /\ output_embeddings = 0
    /\ last_set = None
    /\ logits = None
    /\ \E n \in 0 .. MaxLayers :
         \E keys \in [1 .. n -> LayerKeySets] :
            /\ heap = <<[cls |-> "list", items |-> [i \in 1 .. n |-> i + 1]]>>
                      \o [i \in 1 .. n |->
                            [cls |-> "dict",
                             items |-> [k \in keys[i] |->
                                          CachedTensor(2 * i + (IF k = "self" THEN 0 ELSE 1))]]]
            /\ \E enc_out \in {None, Some(CachedTensor(0))},
                  enc_mask \in {None, Some(CachedTensor(1))} :
                  past = Some([enc_out |-> enc_out, enc_mask |-> enc_mask,
                               decoder_cached_states |-> 1])
    /\ trail = <<>>
    /\ call = [op |-> "__init__"]
    /\ ret = Return(None)

NextCache ==
    \E input \in {"past", "ret"}, beam_idx \in BeamIdx : _reorder_cache(input, beam_idx)

SpecCache == InitCache /\ [][NextCache]_vars

\* ================================================================ claims
\* the scores a returned forward call carries: logits of the structured
\* record, else the tuple's element after the loss (when labels were given)
ReturnedScores ==
    LET v == Get(ret.value)
    IN  IF v.cls = "tuple"
        THEN (IF call.args.labels # None THEN v.elems[2] ELSE v.elems[1])
        ELSE v.logits

ForwardReturned == call.op = "forward" /\ ret.raised = None

\* C1: every forward call that returns, returns scores whose BOS column
\* holds, in every batch row and position, -65504 when the scores are half
\* precision and -1e20 otherwise.
C1_BosScoreIsFloor ==
    ForwardReturned =>
        \A b \in DOMAIN ReturnedScores : \A t \in DOMAIN ReturnedScores[b] :
            ReturnedScores[b][t][config.bos_token_id]
                = (IF dtype = "float16" THEN Neg65504 ELSE Neg1e20)

\* a training call (labels, tuple return) of a float32 model whose shared
\* table was swapped, with the floor in the BOS column
C1_Witness ==
    /\ ForwardReturned
    /\ call.args.labels # None
    /\ Get(ret.value).cls = "tuple"
    /\ dtype = "float32"
    /\ shared # 0
    /\ \A b \in Batch : ReturnedScores[b][1][config.bos_token_id] = Neg1e20
    /\ \E b \in Batch, v \in Vocab : ReturnedScores[b][1][v].m > 0

\* C2: once set_input_embeddings(T) has been called, the encoder's and the
\* decoder's embed_tokens are the table T of the last such call, and
\* get_input_embeddings returns that same table.
C2_EmbeddingRoundTrip ==
    last_set # None =>
        /\ encoder_embed_tokens = Get(last_set)
        /\ decoder_embed_tokens = Get(last_set)
        /\ call.op = "get_input_embeddings" => ret.value = last_set

\* get_input_embeddings after a table other than the constructed one was set
C2_Witness ==
    /\ call.op = "get_input_embeddings"
    /\ last_set = Some(NumTables)
    /\ ret = Return(NumTables)
    /\ encoder_embed_tokens = NumTables
    /\ decoder_embed_tokens = NumTables

\* C3: in every reachable state the wrapper's shared table, the encoder's,
\* the decoder's and the table the output head projects against are the
\* same object.
C3_AllFourTied ==
    /\ encoder_embed_tokens = shared
    /\ decoder_embed_tokens = shared
    /\ output_embeddings = shared

\* C9: forward never fails the assertion that the encoder output is the
\* structured record, whatever the resolved return_dict and the form of the
\* encoder output.
C9_EncoderOutputIsRecord ==
    call.op = "forward" => ret.raised # Some("AssertionError: encoder_outputs")

\* ---- generation hooks (SpecGen)
Finite(x) == x # NegInf
Scores == Get(logits)
Rows == DOMAIN Scores.data

ForcedSingle ==
    /\ call.op = "_force_token_ids_generation"
    /\ call.token_ids.cls = "int"
ForcedId == CHOOSE k \in call.token_ids.ids : TRUE

\* C6 as claimed: after _force_token_ids_generation with the single id k on
\* a 2-dimensional tensor, every row has exactly one entry that is not
\* negative infinity, at column k; on any other rank the call fails.
C6_ExactlyOneFinite ==
    ForcedSingle =>
        IF Len(call.scores.shape) = 2
        THEN /\ ret.raised = None
             /\ \A r \in Rows : {v \in Vocab : Finite(Scores.data[r][v])} = {ForcedId}
        ELSE ret.raised # None

\* C6 as amended: every column but k is negative infinity in every row and
\* column k keeps the entry it had, so that a row has exactly one entry that
\* is not negative infinity, at column k, whenever its entry at k was not
\* negative infinity; on any other rank the call fails and changes nothing.
C6_OthersMaskedColumnKept ==
    ForcedSingle =>
        IF Len(call.scores.shape) = 2
        THEN /\ ret.raised = None
             /\ \A r \in Rows :
                  /\ \A v \in Vocab \ {ForcedId} : Scores.data[r][v] = NegInf
                  /\ Scores.data[r][ForcedId] = call.scores.data[r][ForcedId]
                  /\ Finite(call.scores.data[r][ForcedId])
                       => {v \in Vocab : Finite(Scores.data[r][v])} = {ForcedId}
        ELSE /\ ret.raised # None
             /\ Scores = call.scores

\* the last column forced on a tensor none of whose entries was negative
\* infinity
C6_Witness ==
    /\ ForcedSingle
    /\ ForcedId = VocabSize - 1
    /\ Len(call.scores.shape) = 2
    /\ \A r \in Rows : \A v \in Vocab : Finite(call.scores.data[r][v])
    /\ \A r \in Rows : {v \in Vocab : Finite(Scores.data[r][v])} = {ForcedId}

\* a call on the logits of a decoding step: batch x vocabulary
Adjusted ==
    /\ call.op = "adjust_logits_during_generation"
    /\ Len(call.logits.shape) = 2
LastStep ==
    /\ Adjusted
    /\ call.cur_len = call.max_length - 1
    /\ config.eos_token_id # None

\* C7 as claimed: called on logits of shape batch x vocabulary on the step
\* cur_len = max_length - 1 with an EOS id configured, the call returns
\* logits in which, in every row, the EOS column is the only one that is not
\* negative infinity, whatever the logits it was given.
C7_OnlyEosFinite ==
    LastStep =>
        /\ ret = Return(logits)
        /\ \A r \in Rows :
             {v \in Vocab : Finite(Scores.data[r][v])} = {Get(config.eos_token_id)}

\* C7 as amended: on that step every column other than EOS is negative
\* infinity in every row of the returned logits (the BOS column too when
\* BOS differs from EOS); the EOS column holds -65504 when EOS is BOS and
\* the entry it was given otherwise, so that the EOS column is the only one
\* that is not negative infinity whenever EOS is BOS or the entry given at
\* EOS was not negative infinity, and the row has no such column otherwise.
C7_OthersMaskedEosKept ==
    LastStep =>
        LET eos == Get(config.eos_token_id)
        IN  /\ ret = Return(logits)
            /\ \A r \in Rows :
                 /\ \A v \in Vocab \ {eos} : Scores.data[r][v] = NegInf
                 /\ Scores.data[r][eos]
                      = (IF eos = config.bos_token_id THEN Neg65504
                         ELSE call.logits.data[r][eos])
                 /\ IF eos = config.bos_token_id \/ Finite(call.logits.data[r][eos])
                    THEN {v \in Vocab : Finite(Scores.data[r][v])} = {eos}
                    ELSE {v \in Vocab : Finite(Scores.data[r][v])} = {}

\* the last step of a model whose EOS differs from BOS, on logits none of
\* whose entries was negative infinity: only EOS is left, BOS is masked
C7_Witness ==
    /\ LastStep
    /\ Get(config.eos_token_id) # config.bos_token_id
    /\ \A r \in Rows :
         /\ \A v \in Vocab : Finite(call.logits.data[r][v])
         /\ {v \in Vocab : Finite(Scores.data[r][v])} = {Get(config.eos_token_id)}
         /\ Scores.data[r][config.bos_token_id] = NegInf

\* C8: prepare_inputs_for_generation without a past fails and returns
\* nothing; with a past it returns input_ids None and the encoder outputs,
\* decoder cache, decoder input ids, attention mask and use_cache it was
\* given.
C8_PrepareInputs ==
    call.op = "prepare_inputs_for_generation" =>
        IF call.args.past = None
        THEN /\ ret.raised # None
             /\ ret.value = None
        ELSE /\ ret.raised = None
             /\ Get(ret.value)
                  = [input_ids |-> None,
                     encoder_outputs |-> Get(call.args.past).encoder_outputs,
                     decoder_cached_states |-> Get(call.args.past).decoder_cached_states,
                     decoder_input_ids |-> call.args.decoder_input_ids,
                     attention_mask |-> call.args.attention_mask,
                     use_cache |-> call.args.use_cache]

\* a call with a past that holds a decoder cache
C8_Witness ==
    /\ call.op = "prepare_inputs_for_generation"
    /\ call.args.past # None
    /\ Get(call.args.past).decoder_cached_states # None
    /\ ret.raised = None
    /\ Get(ret.value).input_ids = None
    /\ Get(ret.value).decoder_cached_states = Some("decoder_cached_states")

\* C10 as claimed: on every decoding step the logits (batch x vocabulary)
\* that are returned hold -65504 in the BOS column of every row.
C10_BosAlways65504 ==
    Adjusted => \A r \in Rows : Scores.data[r][config.bos_token_id] = Neg65504

\* C10 as amended: called on logits of shape batch x vocabulary, the
\* returned logits hold -65504 in the BOS column of every row, except on the step cur_len = max_length - 1 of a model whose
\* configured EOS id differs from BOS, where the BOS column is negative
\* infinity.
C10_BosSuppressed ==
    Adjusted =>
        /\ ret = Return(logits)
        /\ \A r \in Rows :
             Scores.data[r][config.bos_token_id]
               = (IF LastStep /\ Get(config.eos_token_id) # config.bos_token_id
                  THEN NegInf ELSE Neg65504)

\* a step before the last one, of a model with an EOS id: BOS is -65504 and
\* the other columns are as given
C10_Witness ==
    /\ Adjusted
    /\ call.cur_len < call.max_length - 1
    /\ config.eos_token_id # None
    /\ \A r \in Rows :
         /\ Scores.data[r][config.bos_token_id] = Neg65504
         /\ call.logits.data[r][config.bos_token_id] # Neg65504
         /\ \A v \in Vocab \ {config.bos_token_id} :
              Scores.data[r][v] = call.logits.data[r][v]

\* ---- cache reordering (SpecCache)
\* the contents of a past value: its encoder output and mask and, per
\* layer, the mapping of attention key to cached tensor
Contents(h, p) ==
    [enc_out |-> p.enc_out,
     enc_mask |-> p.enc_mask,
     layers |-> [i \in DOMAIN h[p.decoder_cached_states].items |->
                    h[h[p.decoder_cached_states].items[i]].items]]

\* the past value call i of the trail was given
InputOf(i) == IF trail[i].input = "past" THEN Get(past) ELSE trail[i - 1].result

IdentityIdx == [b \in Batch |-> b - 1]
IsPermutation(beam_idx) == \A c \in Batch : \E b \in Batch : beam_idx[b] = c - 1
InverseOf(beam_idx) == [c \in Batch |-> (CHOOSE b \in Batch : beam_idx[b] = c - 1) - 1]

\* C4: reordering with the identity permutation returns a past whose
\* contents equal the input's; reordering with a permutation and then with
\* its inverse returns the contents of the original; an absent encoder
\* output or mask stays absent; the number of layers and each layer's keys
\* are preserved.
C4_ReorderEquivariant ==
    \A i \in DOMAIN trail :
        LET in == Contents(heap, InputOf(i))
            out == Contents(heap, trail[i].result)
        IN  /\ trail[i].beam_idx = IdentityIdx => out = in
            /\ (in.enc_out = None) <=> (out.enc_out = None)
            /\ (in.enc_mask = None) <=> (out.enc_mask = None)
            /\ Len(out.layers) = Len(in.layers)
            /\ \A l \in DOMAIN in.layers : DOMAIN out.layers[l] = DOMAIN in.layers[l]
            /\ ( /\ i > 1
                 /\ trail[i].input = "ret"
                 /\ IsPermutation(trail[i - 1].beam_idx)
                 /\ trail[i].beam_idx = InverseOf(trail[i - 1].beam_idx) )
               => out = Contents(heap, InputOf(i - 1))

\* a past with an encoder output, no mask and two layers, reordered with a
\* permutation that is not the identity and then with its inverse
C4_Witness ==
    /\ Len(trail) = 2
    /\ trail[2].input = "ret"
    /\ IsPermutation(trail[1].beam_idx)
    /\ trail[1].beam_idx # IdentityIdx
    /\ trail[2].beam_idx = InverseOf(trail[1].beam_idx)
    /\ Get(past).enc_out # None
    /\ Get(past).enc_mask = None
    /\ Len(heap[Get(past).decoder_cached_states].items) = 2
    /\ Contents(heap, trail[1].result) # Contents(heap, Get(past))
    /\ Contents(heap, trail[2].result) = Contents(heap, Get(past))

\* C5: a _reorder_cache call leaves its input as it was: the driver's past,
\* the list of layer caches and every layer's mapping and tensors are the
\* same after the call as before, and the list and the mappings of the
\* returned past are new objects.
C5_ReorderIsPure ==
    [][ call'.op = "_reorder_cache" =>
          LET result == Get(ret'.value)
          IN  /\ past' = past
              /\ \A id \in DOMAIN heap : id \in DOMAIN heap' /\ heap'[id] = heap[id]
              /\ result.decoder_cached_states \notin DOMAIN heap
              /\ \A i \in DOMAIN heap'[result.decoder_cached_states].items :
                     heap'[result.decoder_cached_states].items[i] \notin DOMAIN heap
      ]_vars

\* two reorderings of the same past with different beam_idx, each result
\* being the reordering of the past's contents by its own beam_idx
C5_Witness ==
    /\ Len(trail) = 2
    /\ trail[1].input = "past"
    /\ trail[2].input = "past"
    /\ trail[1].beam_idx # trail[2].beam_idx
    /\ trail[1].beam_idx # IdentityIdx
    /\ Len(heap[Get(past).decoder_cached_states].items) > 0
    /\ \A i \in 1 .. 2 :
         \A l \in DOMAIN Contents(heap, Get(past)).layers :
            \A k \in DOMAIN Contents(heap, Get(past)).layers[l] :
               Contents(heap, trail[i].result).layers[l][k]
                 = index_select(Contents(heap, Get(past)).layers[l][k], trail[i].beam_idx)

====
